---------------------------- MODULE Spec2Model ----------------------------
(***************************************************************************)
(* Model of the template placeholder engine of DocGen-Mongo: the Template  *)
(* mongoose model (models/Template.js) and the template routes that        *)
(* persist it.  Text is modelled as a sequence of one-character strings so *)
(* that the regular expressions of the source are computed, not assumed.   *)
(***************************************************************************)
EXTENDS Integers, Sequences, FiniteSets, TLC

VARIABLES
    templates,   \* the Template collection: id -> stored document or NoTemplate
    doc,         \* reconcile harness: the in-memory mongoose document being saved
    prevDoc,     \* reconcile harness: the document as it was before the last save
    valIn,       \* validate harness: [specs, data] handed to validatePlaceholderData
    valOut,      \* validate harness: [done, errors]
    renIn,       \* render harness: [specs, body, data] handed to replacePlaceholders
    renOut,      \* render harness: [done, trace] (processedContent after each step)
    docs,        \* the GeneratedDoc collection, in insertion order
    reqs,        \* /generate-single requests in flight: request -> its locals
    batch,       \* the /generate-bulk request and its background processing
    del,         \* the DELETE /api/templates/:id request in flight
    users,       \* the User collection: id -> stored document
    calls        \* requests to guarded routes in flight: call -> its locals

vars == <<templates, doc, prevDoc, valIn, valOut, renIn, renOut,
          docs, reqs, batch, del, users, calls>>

----------------------------------------------------------------------------
(* Bounds *)

MaxFrags == 2        \* fragments concatenated into a template body
MaxExisting == 2     \* entries in a caller-supplied placeholder list
MaxSpecs == 2        \* entries in a placeholder list handed to validate
MaxRenderSpecs == 2  \* entries in a placeholder list handed to render
MaxRenderFrags == 1  \* fragments concatenated into a body handed to render
MaxTemplates == 2    \* documents in the Template collection
MaxUsage == 2        \* cap on usageCount
MaxSaves == 2        \* saves of the document in the reconcile harness
MaxRequests == 2     \* /generate-single requests in flight together

----------------------------------------------------------------------------
(* Characters and text *)

LowerLetters ==
    {"a","b","c","d","e","f","g","h","i","j","k","l","m",
     "n","o","p","q","r","s","t","u","v","w","x","y","z"}

UpperLetters ==
    {"A","B","C","D","E","F","G","H","I","J","K","L","M",
     "N","O","P","Q","R","S","T","U","V","W","X","Y","Z"}

Digits == {"0","1","2","3","4","5","6","7","8","9"}

\* the regular-expression class \w
WordChars == LowerLetters \cup UpperLetters \cup Digits \cup {"_"}

\* the characters String.prototype.trim() removes (those the model uses)
WhiteSpace == {" "}

IsWordChar(c) == c \in WordChars

\* String.prototype.toUpperCase on one character
ToUpper(c) ==
    CASE c = "a" -> "A" [] c = "b" -> "B" [] c = "c" -> "C" [] c = "d" -> "D"
      [] c = "e" -> "E" [] c = "f" -> "F" [] c = "g" -> "G" [] c = "h" -> "H"
      [] c = "i" -> "I" [] c = "j" -> "J" [] c = "k" -> "K" [] c = "l" -> "L"
      [] c = "m" -> "M" [] c = "n" -> "N" [] c = "o" -> "O" [] c = "p" -> "P"
      [] c = "q" -> "Q" [] c = "r" -> "R" [] c = "s" -> "S" [] c = "t" -> "T"
      [] c = "u" -> "U" [] c = "v" -> "V" [] c = "w" -> "W" [] c = "x" -> "X"
      [] c = "y" -> "Y" [] c = "z" -> "Z" [] OTHER -> c

\* s.slice(i-1, j) in 1-based inclusive positions; empty when j < i
Slice(s, i, j) == IF j < i THEN <<>> ELSE SubSeq(s, i, j)

\* does pat occur in s starting at position i
OccursAt(s, pat, i) ==
    /\ i >= 1
    /\ i + Len(pat) - 1 <= Len(s)
    /\ \A n \in 1..Len(pat) : s[i + n - 1] = pat[n]

\* String.prototype.includes
Includes(s, pat) == \E i \in 1..(Len(s) + 1) : OccursAt(s, pat, i)

\* Array.prototype.includes on a sequence
SeqIncludes(seq, x) == \E i \in 1..Len(seq) : seq[i] = x

\* Array.prototype.map(p => p.key)
RECURSIVE MapKey(_)
MapKey(ps) ==
    IF ps = <<>> THEN <<>> ELSE <<Head(ps).key>> \o MapKey(Tail(ps))

\* [...new Set(seq)]: first occurrences, in order
RECURSIVE Unique(_)
Unique(seq) ==
    IF seq = <<>> THEN <<>>
    ELSE LET init == Unique(SubSeq(seq, 1, Len(seq) - 1))
             last == seq[Len(seq)]
         IN  IF SeqIncludes(init, last) THEN init ELSE Append(init, last)

\* String.prototype.trim
RECURSIVE TrimLeft(_)
TrimLeft(s) ==
    IF s # <<>> /\ Head(s) \in WhiteSpace THEN TrimLeft(Tail(s)) ELSE s

RECURSIVE TrimRight(_)
TrimRight(s) ==
    IF s # <<>> /\ s[Len(s)] \in WhiteSpace
    THEN TrimRight(SubSeq(s, 1, Len(s) - 1)) ELSE s

Trim(s) == TrimRight(TrimLeft(s))

----------------------------------------------------------------------------
(* Placeholder extraction: /\{\{(\w+)\}\}/g with matchAll *)

\* first position >= i that does not hold a word character (Len(s)+1 if none)
RECURSIVE WordRunEnd(_, _)
WordRunEnd(s, i) ==
    IF i <= Len(s) /\ IsWordChar(s[i]) THEN WordRunEnd(s, i + 1) ELSE i

\* the regex matches at position i; \w+ is greedy and "}" is not a word
\* character, so the only candidate key is the maximal word run after "{{"
PlaceholderMatchAt(s, i) ==
    /\ OccursAt(s, <<"{", "{">>, i)
    /\ LET e == WordRunEnd(s, i + 2)
       IN  e > i + 2 /\ OccursAt(s, <<"}", "}">>, e)

\* matches.map(match => match[1]): captured keys, left to right, not overlapping
RECURSIVE MatchAllKeys(_, _)
MatchAllKeys(s, i) ==
    IF i > Len(s) THEN <<>>
    ELSE IF PlaceholderMatchAt(s, i)
         THEN LET e == WordRunEnd(s, i + 2)
              IN  <<Slice(s, i + 2, e - 1)>> \o MatchAllKeys(s, e + 2)
         ELSE MatchAllKeys(s, i + 1)

FoundPlaceholders(content) == Unique(MatchAllKeys(content, 1))

----------------------------------------------------------------------------
(* Defaults synthesized for a newly found key *)

\* key.replace(/_/g, ' ')
UnderscoresToSpaces(key) ==
    [i \in 1..Len(key) |-> IF key[i] = "_" THEN " " ELSE key[i]]

\* .replace(/\b\w/g, l => l.toUpperCase()): a word character at a word boundary
TitleCase(s) ==
    [i \in 1..Len(s) |->
        IF IsWordChar(s[i]) /\ (i = 1 \/ ~IsWordChar(s[i - 1]))
        THEN ToUpper(s[i]) ELSE s[i]]

DefaultLabel(key) == TitleCase(UnderscoresToSpaces(key))

\* variant: email is looked for before date
InferType_EmailFirst(key) ==
    IF Includes(key, <<"e","m","a","i","l">>) THEN "email"
    ELSE IF Includes(key, <<"d","a","t","e">>) THEN "date"
    ELSE IF Includes(key, <<"s","a","l","a","r","y">>)
            \/ Includes(key, <<"a","m","o","u","n","t">>) THEN "number"
    ELSE "text"

\* key.includes('date') ? 'date' : key.includes('email') ? 'email' : ...
InferType(key) ==
    IF Includes(key, <<"d","a","t","e">>) THEN "date"
    ELSE IF Includes(key, <<"e","m","a","i","l">>) THEN "email"
    ELSE IF Includes(key, <<"s","a","l","a","r","y">>)
            \/ Includes(key, <<"a","m","o","u","n","t">>) THEN "number"
    ELSE "text"

\* the object pushed for a new key, as the document array casts it: the
\* schema declares label with trim: true; defaultValue is left unset
\* (modelled as "")
NewPlaceholder(key) ==
    [key |-> key, label |-> Trim(DefaultLabel(key)), type |-> InferType(key),
     required |-> TRUE, defaultValue |-> <<>>]

----------------------------------------------------------------------------
(* Reconciliation: templateSchema.pre('save') *)

\* variant: pushes an entry for every found key, configured before or not
RECURSIVE AddMissing_IgnoreExisting(_, _)
AddMissing_IgnoreExisting(found, existingKeys) ==
    IF found = <<>> THEN <<>>
    ELSE <<NewPlaceholder(Head(found))>>
         \o AddMissing_IgnoreExisting(Tail(found), existingKeys)

\* foundPlaceholders.forEach(key => if (!existingKeys.includes(key)) push(...))
RECURSIVE AddMissing(_, _)
AddMissing(found, existingKeys) ==
    IF found = <<>> THEN <<>>
    ELSE (IF SeqIncludes(existingKeys, Head(found)) THEN <<>>
          ELSE <<NewPlaceholder(Head(found))>>)
         \o AddMissing(Tail(found), existingKeys)

\* variant: rebuilds every kept entry from its key, losing its configuration
RECURSIVE KeepFound_Regenerate(_, _)
KeepFound_Regenerate(ps, found) ==
    IF ps = <<>> THEN <<>>
    ELSE (IF SeqIncludes(found, Head(ps).key)
          THEN <<NewPlaceholder(Head(ps).key)>> ELSE <<>>)
         \o KeepFound_Regenerate(Tail(ps), found)

\* this.placeholders.filter(p => foundPlaceholders.includes(p.key))
RECURSIVE KeepFound(_, _)
KeepFound(ps, found) ==
    IF ps = <<>> THEN <<>>
    ELSE (IF SeqIncludes(found, Head(ps).key) THEN <<Head(ps)>> ELSE <<>>)
         \o KeepFound(Tail(ps), found)

\* the hook body; changed = this.isNew || this.isModified('content')
PreSave(placeholders, content, changed) ==
    LET found == FoundPlaceholders(content)
    IN  IF changed
        THEN KeepFound(placeholders \o AddMissing(found, MapKey(placeholders)),
                       found)
        ELSE placeholders

----------------------------------------------------------------------------
(* Data records: a partial function from keys to strings; a missing key is  *)
(* JavaScript's undefined.                                                  *)

Has(data, key) == key \in DOMAIN data

\* truthiness of data[key] for string values: present and not ""
Truthy(data, key) == Has(data, key) /\ data[key] # <<>>

\* variant: tests emptiness without trimming
IsMissing_NoTrim(data, key) == ~Truthy(data, key)

\* !data[key] || data[key].toString().trim() === ''
IsMissing(data, key) == ~Truthy(data, key) \/ Trim(data[key]) = <<>>

----------------------------------------------------------------------------
(* Type checks of validatePlaceholderData *)

AllWord(s) == \A i \in 1..Len(s) : IsWordChar(s[i])
AllDigits(s) == \A i \in 1..Len(s) : s[i] \in Digits

\* \w+([.-]?\w+)* : word characters with single "." or "-" separators that
\* are neither first, last nor adjacent
WordRuns(s) ==
    /\ s # <<>>
    /\ IsWordChar(s[1]) /\ IsWordChar(s[Len(s)])
    /\ \A i \in 1..Len(s) : IsWordChar(s[i]) \/ s[i] \in {".", "-"}
    /\ \A i \in 1..(Len(s) - 1) : IsWordChar(s[i]) \/ IsWordChar(s[i + 1])

\* (\.\w{2,3})+ anchored at both ends
RECURSIVE DotGroups(_)
DotGroups(s) ==
    /\ Len(s) >= 3
    /\ s[1] = "."
    /\ \E n \in {2, 3} :
          /\ Len(s) >= 1 + n
          /\ AllWord(Slice(s, 2, 1 + n))
          /\ (Len(s) = 1 + n \/ DotGroups(Slice(s, 2 + n, Len(s))))

\* \w+([.-]?\w+)*(\.\w{2,3})+$ on the part after "@"
EmailDomain(d) ==
    \E i \in 1..Len(d) :
        WordRuns(Slice(d, 1, i)) /\ DotGroups(Slice(d, i + 1, Len(d)))

\* emailRegex.test(value)
EmailRegexTest(v) ==
    \E a \in 1..Len(v) :
        /\ v[a] = "@"
        /\ WordRuns(Slice(v, 1, a - 1))
        /\ EmailDomain(Slice(v, a + 1, Len(v)))

\* digits with an optional fraction: "12", "12.", "12.5", ".5"
UnsignedDecimal(s) ==
    \/ s # <<>> /\ AllDigits(s)
    \/ \E d \in 1..Len(s) :
          /\ s[d] = "."
          /\ AllDigits(Slice(s, 1, d - 1))
          /\ AllDigits(Slice(s, d + 1, Len(s)))
          /\ Len(s) > 1

\* StrDecimalLiteral without exponent (the model's values carry none)
DecimalLiteral(s) ==
    \/ UnsignedDecimal(s)
    \/ s # <<>> /\ s[1] \in {"+", "-"} /\ UnsignedDecimal(Tail(s))

\* isNaN(value) on a string: Number(value) trims, "" is 0
IsNaNString(v) ==
    LET t == Trim(v) IN t # <<>> /\ ~DecimalLiteral(t)

\* ISO date-only form YYYY-MM-DD with month 01..12 and day 01..28
IsIsoDate(v) ==
    /\ Len(v) = 10
    /\ v[5] = "-" /\ v[8] = "-"
    /\ AllDigits(Slice(v, 1, 4)) /\ AllDigits(Slice(v, 6, 7))
    /\ AllDigits(Slice(v, 9, 10))
    /\ Slice(v, 6, 7) \in {<<"0","1">>, <<"0","2">>, <<"0","3">>, <<"0","4">>,
                           <<"0","5">>, <<"0","6">>, <<"0","7">>, <<"0","8">>,
                           <<"0","9">>, <<"1","0">>, <<"1","1">>, <<"1","2">>}
    /\ \/ v[9] = "0" /\ v[10] # "0"
       \/ v[9] = "1"
       \/ v[9] = "2" /\ v[10] \in Digits \ {"9"}

\* isNaN(Date.parse(value)).  The model's values are ISO dates or text without
\* any digit; the engine's fallback parser needs a number to produce a date.
DateParseIsNaN(v) == ~IsIsoDate(v)

----------------------------------------------------------------------------
(* validatePlaceholderData *)

MsgRequired == <<" ","i","s"," ","r","e","q","u","i","r","e","d">>
MsgEmail == <<" ","m","u","s","t"," ","b","e"," ","a"," ","v","a","l","i","d"," ","e","m","a","i","l">>
MsgNumber == <<" ","m","u","s","t"," ","b","e"," ","a"," ","n","u","m","b","e","r">>
MsgDate == <<" ","m","u","s","t"," ","b","e"," ","a"," ","v","a","l","i","d"," ","d","a","t","e">>

\* this.placeholders.filter(p => p.required)
RECURSIVE getRequiredPlaceholders(_)
getRequiredPlaceholders(ps) ==
    IF ps = <<>> THEN <<>>
    ELSE (IF Head(ps).required THEN <<Head(ps)>> ELSE <<>>)
         \o getRequiredPlaceholders(Tail(ps))

\* the switch on placeholder.type, reached only when data[key] is truthy
TypeErrors(p, data) ==
    IF ~Truthy(data, p.key) THEN <<>>
    ELSE IF p.type = "email" /\ ~EmailRegexTest(data[p.key])
         THEN <<p.label \o MsgEmail>>
    ELSE IF p.type = "number" /\ IsNaNString(data[p.key])
         THEN <<p.label \o MsgNumber>>
    ELSE IF p.type = "date" /\ DateParseIsNaN(data[p.key])
         THEN <<p.label \o MsgDate>>
    ELSE <<>>

\* the body of requiredPlaceholders.forEach for one placeholder
ErrorsFor(p, data) ==
    (IF IsMissing(data, p.key) THEN <<p.label \o MsgRequired>> ELSE <<>>)
    \o TypeErrors(p, data)

RECURSIVE CollectErrors(_, _)
CollectErrors(ps, data) ==
    IF ps = <<>> THEN <<>>
    ELSE ErrorsFor(Head(ps), data) \o CollectErrors(Tail(ps), data)

validatePlaceholderData(placeholders, data) ==
    CollectErrors(getRequiredPlaceholders(placeholders), data)

----------------------------------------------------------------------------
(* Formatting of replacePlaceholders *)

InvalidDate == <<"I","n","v","a","l","i","d"," ","D","a","t","e">>

MonthName(mm) ==
    CASE mm = <<"0","1">> -> <<"J","a","n","u","a","r","y">>
      [] mm = <<"0","2">> -> <<"F","e","b","r","u","a","r","y">>
      [] mm = <<"0","3">> -> <<"M","a","r","c","h">>
      [] mm = <<"0","4">> -> <<"A","p","r","i","l">>
      [] mm = <<"0","5">> -> <<"M","a","y">>
      [] mm = <<"0","6">> -> <<"J","u","n","e">>
      [] mm = <<"0","7">> -> <<"J","u","l","y">>
      [] mm = <<"0","8">> -> <<"A","u","g","u","s","t">>
      [] mm = <<"0","9">> -> <<"S","e","p","t","e","m","b","e","r">>
      [] mm = <<"1","0">> -> <<"O","c","t","o","b","e","r">>
      [] mm = <<"1","1">> -> <<"N","o","v","e","m","b","e","r">>
      [] mm = <<"1","2">> -> <<"D","e","c","e","m","b","e","r">>

\* new Date(value).toLocaleDateString('en-US', {year:'numeric', month:'long',
\* day:'numeric'}); an unparseable value gives the string "Invalid Date".
\* A date-only ISO value is read as UTC midnight; the server clock is UTC.
ToLocaleDateString(v) ==
    IF ~IsIsoDate(v) THEN InvalidDate
    ELSE MonthName(Slice(v, 6, 7)) \o <<" ">>
         \o (IF v[9] = "0" THEN <<v[10]>> ELSE Slice(v, 9, 10))
         \o <<",", " ">> \o Slice(v, 1, 4)

RECURSIVE StripLeadingZeros(_)
StripLeadingZeros(ds) ==
    IF Len(ds) > 1 /\ Head(ds) = "0" THEN StripLeadingZeros(Tail(ds)) ELSE ds

\* en-IN grouping of an integer: the last three digits, then groups of two
RECURSIVE GroupPairs(_)
GroupPairs(ds) ==
    IF Len(ds) <= 2 THEN ds
    ELSE GroupPairs(SubSeq(ds, 1, Len(ds) - 2)) \o <<",">>
         \o SubSeq(ds, Len(ds) - 1, Len(ds))

GroupIndian(ds) ==
    IF Len(ds) <= 3 THEN ds
    ELSE GroupPairs(SubSeq(ds, 1, Len(ds) - 3)) \o <<",">>
         \o SubSeq(ds, Len(ds) - 2, Len(ds))

RupeeSign == "Rs"

\* new Intl.NumberFormat('en-IN', {style:'currency', currency:'INR'})
\* .format(value) for unsigned values with at most two fraction digits;
\* a value that is not a number formats as NaN
FormatINR(v) ==
    LET t == Trim(v)
        dot == IF \E d \in 1..Len(t) : t[d] = "."
               THEN CHOOSE d \in 1..Len(t) : t[d] = "." ELSE Len(t) + 1
        int == Slice(t, 1, dot - 1)
        frac == Slice(t, dot + 1, Len(t))
    IN  IF t # <<>> /\ ~UnsignedDecimal(t) THEN <<RupeeSign, "N", "a", "N">>
        ELSE <<RupeeSign>>
             \o GroupIndian(StripLeadingZeros(IF int = <<>> THEN <<"0">> ELSE int))
             \o <<".">>
             \o (IF Len(frac) = 0 THEN <<"0", "0">>
                 ELSE IF Len(frac) = 1 THEN frac \o <<"0">>
                 ELSE Slice(frac, 1, 2))

\* data[placeholder.key] || placeholder.defaultValue || ''
ResolveValue(p, data) ==
    IF Truthy(data, p.key) THEN data[p.key] ELSE p.defaultValue

IsCurrencyKey(key) ==
    Includes(key, <<"s","a","l","a","r","y">>)
    \/ Includes(key, <<"a","m","o","u","n","t">>)

\* if (value) switch (placeholder.type) ...
FormatValue(p, value) ==
    IF value = <<>> THEN value
    ELSE IF p.type = "date" THEN ToLocaleDateString(value)
    ELSE IF p.type = "number" /\ IsCurrencyKey(p.key) THEN FormatINR(value)
    ELSE value

----------------------------------------------------------------------------
(* Substitution of replacePlaceholders *)

\* variant: the pattern is the bare key, without the braces
TokenPattern_NoBraces(key) == key

\* the source of new RegExp(`\\{\\{${placeholder.key}\\}\\}`, 'g'): for a key
\* of word characters it matches exactly the text {{key}}
TokenPattern(key) == <<"{", "{">> \o key \o <<"}", "}">>

\* String.prototype.replace with a string replacement: $$ is "$", $& the
\* match, $` the text before it, $' the text after it (the pattern has no
\* capture group, so $1.. stay literal)
RECURSIVE GetSubstitution(_, _, _, _)
GetSubstitution(value, s, pos, len) ==
    IF value = <<>> THEN <<>>
    ELSE IF Head(value) = "$" /\ Len(value) >= 2
              /\ value[2] \in {"$", "&", "`", "'"}
         THEN (CASE value[2] = "$" -> <<"$">>
                 [] value[2] = "&" -> Slice(s, pos, pos + len - 1)
                 [] value[2] = "`" -> Slice(s, 1, pos - 1)
                 [] value[2] = "'" -> Slice(s, pos + len, Len(s)))
              \o GetSubstitution(Tail(Tail(value)), s, pos, len)
         ELSE <<Head(value)>> \o GetSubstitution(Tail(value), s, pos, len)

\* positions where the global regex matches: left to right, not overlapping
RECURSIVE MatchStarts(_, _, _)
MatchStarts(s, pat, i) ==
    IF i > Len(s) THEN {}
    ELSE IF OccursAt(s, pat, i)
         THEN {i} \cup MatchStarts(s, pat, i + Len(pat))
         ELSE MatchStarts(s, pat, i + 1)

\* processedContent.replace(regex, value)
RECURSIVE ReplaceFrom(_, _, _, _)
ReplaceFrom(s, pat, value, i) ==
    IF i > Len(s) THEN <<>>
    ELSE IF OccursAt(s, pat, i)
         THEN GetSubstitution(value, s, i, Len(pat))
              \o ReplaceFrom(s, pat, value, i + Len(pat))
         ELSE <<s[i]>> \o ReplaceFrom(s, pat, value, i + 1)

ReplaceAll(s, key, value) == ReplaceFrom(s, TokenPattern(key), value, 1)

\* processedContent after each iteration of this.placeholders.forEach;
\* the first element is this.content
RECURSIVE RenderTrace(_, _, _)
RenderTrace(ps, content, data) ==
    IF ps = <<>> THEN <<content>>
    ELSE LET p == Head(ps)
             value == FormatValue(p, ResolveValue(p, data))
         IN  <<content>>
             \o RenderTrace(Tail(ps), ReplaceAll(content, p.key, value), data)

replacePlaceholders(placeholders, content, data) ==
    LET tr == RenderTrace(placeholders, content, data) IN tr[Len(tr)]

----------------------------------------------------------------------------
(* Input domains *)

\* the text of a token as it is written in a body: {{key}}
TokenText(key) == <<"{", "{">> \o key \o <<"}", "}">>

kName == <<"n","a","m","e">>
kFullName == <<"f","u","l","l","_","n","a","m","e">>
kDate == <<"d","a","t","e">>
kEmail == <<"e","m","a","i","l">>
kSalary == <<"s","a","l","a","r","y">>
kOld == <<"o","l","d">>

\* sequences over S of length 0..n
RECURSIVE SeqsUpTo(_, _)
SeqsUpTo(S, n) ==
    IF n = 0 THEN {<<>>}
    ELSE LET shorter == SeqsUpTo(S, n - 1)
         IN  shorter \cup {Append(q, x) : q \in shorter, x \in S}

\* concatenations of 0..n fragments
RECURSIVE Concats(_, _)
Concats(F, n) ==
    IF n = 0 THEN {<<>>}
    ELSE LET shorter == Concats(F, n - 1)
         IN  shorter \cup {q \o f : q \in shorter, f \in F}

KeySetOf(ps) == {ps[i].key : i \in 1..Len(ps)}

\* data records over the keys of a placeholder list
RecordsOver(keys, values) == UNION {[S -> values] : S \in SUBSET keys}

\* a placeholder entry an editor has configured by hand
Configured(key, label, type, required, defaultValue) ==
    [key |-> key, label |-> label, type |-> type, required |-> required,
     defaultValue |-> defaultValue]

\* two tokens, one key inside the other, and an opening without a key
BodyFrags == {TokenText(kName), TokenText(kFullName), <<"{", "{", " ">>}

Bodies == Concats(BodyFrags, MaxFrags)

ExistingEntries ==
    {Configured(kName, <<"C","a","n","d","i","d","a","t","e">>, "text", FALSE, <<"N","A">>),
     Configured(kOld, <<"O","l","d">>, "number", TRUE, <<>>),
     NewPlaceholder(kFullName)}

ExistingLists == SeqsUpTo(ExistingEntries, MaxExisting)

----------------------------------------------------------------------------
(* Reconcile harness: one mongoose document through new Template(..).save() *)
(* and later saves after its content was assigned.                          *)

NoInput == [done |-> FALSE]

\* a request that has not arrived
Idle == [pc |-> "idle"]

Requests == 1..MaxRequests

\* no document generated, no generation or delete request under way
GenIdle ==
    /\ docs = <<>>
    /\ reqs = [r \in Requests |-> Idle]
    /\ batch = Idle
    /\ del = Idle

\* no user stored, no request to a guarded route under way
AuthIdle ==
    /\ users = <<>>
    /\ calls = <<>>

InitReconcile ==
    /\ doc \in {[content |-> b, placeholders |-> e, isNew |-> TRUE, saves |-> 0] :
                  b \in Bodies, e \in ExistingLists}
    /\ prevDoc = doc
    /\ templates = <<>>
    /\ GenIdle /\ AuthIdle
    /\ valIn = NoInput /\ valOut = NoInput
    /\ renIn = NoInput /\ renOut = NoInput

\* save() of a document built by new Template(data): this.isNew holds
SaveNew ==
    /\ doc.isNew
    /\ doc' = [doc EXCEPT !.placeholders = PreSave(doc.placeholders, doc.content, TRUE),
                          !.isNew = FALSE, !.saves = 1]
    /\ prevDoc' = doc
    /\ UNCHANGED <<templates, valIn, valOut, renIn, renOut, docs, reqs, batch, del, users, calls>>

\* doc.content = b; doc.save(): isModified('content') holds when b differs
SaveContent(b) ==
    /\ ~doc.isNew
    /\ doc.saves < MaxSaves
    /\ doc' = [doc EXCEPT !.content = b,
                          !.placeholders = PreSave(doc.placeholders, b, b # doc.content),
                          !.saves = doc.saves + 1]
    /\ prevDoc' = doc
    /\ UNCHANGED <<templates, valIn, valOut, renIn, renOut, docs, reqs, batch, del, users, calls>>

NextReconcile ==
    \/ SaveNew
    \/ \E b \in Bodies : SaveContent(b)

SpecReconcile == InitReconcile /\ [][NextReconcile]_vars

----------------------------------------------------------------------------
(* Properties of reconciliation *)

\* the distinct {{key}} tokens of a body, stated without the scanner: a key of
\* word characters between "{{" and "}}"
TokenKeysOf(b) ==
    {Slice(b, i + 2, j) : <<i, j>> \in
        {<<i, j>> \in (1..Len(b)) \X (1..Len(b)) :
            /\ j >= i + 2
            /\ OccursAt(b, <<"{", "{">>, i)
            /\ AllWord(Slice(b, i + 2, j))
            /\ OccursAt(b, <<"}", "}">>, j + 1)}}

CountKey(ps, k) == Cardinality({i \in 1..Len(ps) : ps[i].key = k})

\* the last save ran the reconciliation branch of the hook
Reconciled == ~doc.isNew /\ (prevDoc.isNew \/ prevDoc.content # doc.content)

\* C2: for every existing list E (also one with repeated or stale keys) and
\* every body B, the reconciled list holds each distinct token of B exactly
\* once and no entry for any other key.
C2_EachTokenExactlyOnce ==
    Reconciled =>
        /\ \A k \in TokenKeysOf(doc.content) : CountKey(doc.placeholders, k) = 1
        /\ KeySetOf(doc.placeholders) \subseteq TokenKeysOf(doc.content)

\* C3: reconciliation keeps every entry of E whose key still occurs in the
\* new body, unchanged and in order, and a body that adds exactly one new
\* token to the reconciled body gains exactly one new default entry.
C3_EditPreservation ==
    Reconciled =>
        LET E == prevDoc.placeholders
            out == doc.placeholders
            F1 == TokenKeysOf(prevDoc.content)
            F2 == TokenKeysOf(doc.content)
        IN  /\ SelectSeq(E, LAMBDA p : p.key \in F2)
                 = SelectSeq(out, LAMBDA p : p.key \in KeySetOf(E))
            /\ (~prevDoc.isNew /\ F1 \subseteq F2 /\ Cardinality(F2 \ F1) = 1) =>
                   LET k == CHOOSE x \in F2 \ F1 : TRUE
                   IN  /\ Len(out) = Len(E) + 1
                       /\ SubSeq(out, 1, Len(E)) = E
                       /\ out[Len(out)].key = k
                       /\ out[Len(out)].required = TRUE
                       /\ out[Len(out)].defaultValue = <<>>
                       /\ out[Len(out)].label = DefaultLabel(k)

C3_Witness ==
    /\ Reconciled /\ ~prevDoc.isNew
    /\ TokenKeysOf(prevDoc.content) = {kName}
    /\ TokenKeysOf(doc.content) = {kName, kFullName}
    /\ Len(prevDoc.placeholders) >= 1
    /\ prevDoc.placeholders[1].required = FALSE
    /\ doc.placeholders[1] = prevDoc.placeholders[1]

\* C4: reconciling the list reconciled from the empty list against the same
\* body again yields the same list.
C4_Idempotent ==
    (~doc.isNew /\ doc.saves = 1 /\ prevDoc.placeholders = <<>>) =>
        /\ doc.placeholders = PreSave(<<>>, doc.content, TRUE)
        /\ PreSave(doc.placeholders, doc.content, TRUE) = doc.placeholders

C4_Witness ==
    /\ ~doc.isNew /\ doc.saves = 1 /\ prevDoc.placeholders = <<>>
    /\ Len(doc.placeholders) = 2
    /\ PreSave(doc.placeholders, doc.content, TRUE) = doc.placeholders

----------------------------------------------------------------------------
(* Validate harness: one call of template.validatePlaceholderData(data) *)

vEmpty == <<>>
vBlank == <<" ">>
vWord == <<"a","b","c">>
vEmail == <<"a","@","b",".","c","o">>
vNumber == <<"5","0">>
vIsoDate == <<"2","0","2","4","-","0","1","-","1","5">>

ValValues == {vEmpty, vBlank, vWord, vEmail, vNumber, vIsoDate}

KeyOfType(type) ==
    CASE type = "text" -> kName
      [] type = "email" -> kEmail
      [] type = "number" -> kSalary
      [] type = "date" -> kDate

ValEntries ==
    {Configured(KeyOfType(t), DefaultLabel(KeyOfType(t)), t, r, <<>>) :
        t \in {"text", "email", "number", "date"}, r \in BOOLEAN}

InitValidate ==
    /\ valIn \in UNION {{[specs |-> ps, data |-> d] :
                           d \in RecordsOver(KeySetOf(ps), ValValues)} :
                        ps \in SeqsUpTo(ValEntries, MaxSpecs)}
    /\ valOut = NoInput
    /\ templates = <<>>
    /\ GenIdle /\ AuthIdle
    /\ doc = NoInput /\ prevDoc = NoInput
    /\ renIn = NoInput /\ renOut = NoInput

Validate ==
    /\ ~valOut.done
    /\ valOut' = [done |-> TRUE,
                  errors |-> validatePlaceholderData(valIn.specs, valIn.data)]
    /\ UNCHANGED <<templates, doc, prevDoc, valIn, renIn, renOut, docs, reqs, batch, del, users, calls>>

NextValidate == Validate

SpecValidate == InitValidate /\ [][NextValidate]_vars

----------------------------------------------------------------------------
(* Properties of validation *)

\* the value for a key is absent, empty or made of white space only
AbsentOrBlank(data, key) ==
    ~Has(data, key) \/ \A i \in 1..Len(data[key]) : data[key][i] = " "

\* C5: for every required placeholder the error "<label> is required" is
\* reported exactly when the value is absent, empty or white space only; the
\* empty record against an all-required list gives one such error per entry.
C5_RequiredErrors ==
    valOut.done =>
        LET ps == valIn.specs
            d == valIn.data
            errs == valOut.errors
        IN  /\ \A i \in 1..Len(ps) :
                   ps[i].required =>
                       (SeqIncludes(errs, ps[i].label \o MsgRequired)
                            <=> AbsentOrBlank(d, ps[i].key))
            /\ (DOMAIN d = {} /\ \A i \in 1..Len(ps) : ps[i].required) =>
                   /\ Len(errs) = Len(ps)
                   /\ \A i \in 1..Len(ps) :
                          /\ errs[i] = ps[i].label \o MsgRequired
                          /\ Includes(errs[i], ps[i].label)

C5_Witness ==
    /\ valOut.done
    /\ Len(valIn.specs) = 2
    /\ valIn.specs[1].required /\ valIn.specs[2].required
    /\ valIn.specs[1].key # valIn.specs[2].key
    /\ DOMAIN valIn.data = {}
    /\ Len(valOut.errors) = 2

\* the value is not well formed for the type
Malformed(type, v) ==
    \/ type = "email" /\ ~EmailRegexTest(v)
    \/ type = "number" /\ IsNaNString(v)
    \/ type = "date" /\ DateParseIsNaN(v)

TypeMessage(type) ==
    CASE type = "email" -> MsgEmail
      [] type = "number" -> MsgNumber
      [] type = "date" -> MsgDate
      [] OTHER -> <<>>

\* C6: for every placeholder, required or optional, whose non-empty value is
\* malformed for its type, the matching type error is reported.
C6_TypeErrorsForAll ==
    valOut.done =>
        \A i \in 1..Len(valIn.specs) :
            LET p == valIn.specs[i]
            IN  (Truthy(valIn.data, p.key) /\ Malformed(p.type, valIn.data[p.key]))
                    => SeqIncludes(valOut.errors, p.label \o TypeMessage(p.type))

\* the errors that apply to one field: the required error of a required
\* field without a value, and the type error of a malformed non-empty value
ApplicableErrors(p, data) ==
    (IF p.required /\ AbsentOrBlank(data, p.key)
     THEN {p.label \o MsgRequired} ELSE {})
    \cup (IF Truthy(data, p.key) /\ Malformed(p.type, data[p.key])
          THEN {p.label \o TypeMessage(p.type)} ELSE {})

\* C20: validation does not short-circuit: the returned list holds every
\* applicable error of every field and nothing else, whatever the other
\* fields' errors are, and the list is empty exactly when no field has an
\* applicable error.
C20_AllApplicableErrorsCollected ==
    valOut.done =>
        LET ps == valIn.specs
            all == UNION {ApplicableErrors(ps[i], valIn.data) : i \in 1..Len(ps)}
        IN  /\ {valOut.errors[j] : j \in 1..Len(valOut.errors)} = all
            /\ (valOut.errors = <<>>) <=> (all = {})

\* C30: validation yields at most one error per placeholder: a value that
\* gives "<label> is required" (absent, empty or white space only) never
\* gives a type error for the same field as well, whatever the field's type.
C30_AtMostOneErrorPerField ==
    valOut.done =>
        \A i \in 1..Len(valIn.specs) :
            LET p == valIn.specs[i]
            IN  (/\ p.required
                 /\ p.type # "text"
                 /\ AbsentOrBlank(valIn.data, p.key))
                    => ~SeqIncludes(valOut.errors, p.label \o TypeMessage(p.type))

----------------------------------------------------------------------------
(* Render harness: one call of template.replacePlaceholders(data) *)

vA == <<"A">>
vMatchRef == <<"$", "&">>
vJunk == <<"j","u","n","k">>

RenValues ==
    {vEmpty, vA, vMatchRef, TokenText(kFullName), vIsoDate, vJunk}

RenEntries ==
    {NewPlaceholder(kName),
     Configured(kFullName, DefaultLabel(kFullName), "text", FALSE, <<"N","A">>),
     NewPlaceholder(kDate)}

RenFrags ==
    {TokenText(kName), TokenText(kFullName) \o TokenText(kName),
     <<"-">> \o TokenText(kDate)}

InitRender ==
    /\ renIn \in UNION {{[specs |-> ps, body |-> b, data |-> d] :
                           b \in Concats(RenFrags, MaxRenderFrags),
                           d \in RecordsOver(KeySetOf(ps), RenValues)} :
                        ps \in SeqsUpTo(RenEntries, MaxRenderSpecs)}
    /\ renOut = NoInput
    /\ templates = <<>>
    /\ GenIdle /\ AuthIdle
    /\ doc = NoInput /\ prevDoc = NoInput
    /\ valIn = NoInput /\ valOut = NoInput

Render ==
    /\ ~renOut.done
    /\ renOut' = [done |-> TRUE,
                  trace |-> RenderTrace(renIn.specs, renIn.body, renIn.data),
                  text |-> replacePlaceholders(renIn.specs, renIn.body, renIn.data)]
    /\ UNCHANGED <<templates, doc, prevDoc, valIn, valOut, renIn, docs, reqs, batch, del, users, calls>>

NextRender == Render

SpecRender == InitRender /\ [][NextRender]_vars

----------------------------------------------------------------------------
(* Properties of substitution *)

\* the text a placeholder stands for
ValueOf(p, data) == FormatValue(p, ResolveValue(p, data))

\* every occurrence of pat in s replaced by the text v, taken literally
RECURSIVE PlainReplace(_, _, _, _)
PlainReplace(s, pat, v, i) ==
    IF i > Len(s) THEN <<>>
    ELSE IF OccursAt(s, pat, i)
         THEN v \o PlainReplace(s, pat, v, i + Len(pat))
         ELSE <<s[i]>> \o PlainReplace(s, pat, v, i + 1)

\* all tokens of the body replaced at once, each by its own key's value
RECURSIVE Simultaneous(_, _, _, _)
Simultaneous(body, ps, data, i) ==
    IF i > Len(body) THEN <<>>
    ELSE LET hits == {n \in 1..Len(ps) : OccursAt(body, TokenText(ps[n].key), i)}
         IN  IF hits = {} THEN <<body[i]>> \o Simultaneous(body, ps, data, i + 1)
             ELSE LET n == CHOOSE m \in hits : \A o \in hits : m <= o
                  IN  ValueOf(ps[n], data)
                      \o Simultaneous(body, ps, data,
                                      i + Len(TokenText(ps[n].key)))

\* C7: render replaces every occurrence of {{key}} of every listed key by the
\* value resolved from data[key], else the default, else the empty string; the
\* token of a key without value and default never remains in the output.
C7_EveryTokenReplacedByItsValue ==
    renOut.done =>
        /\ renOut.text = Simultaneous(renIn.body, renIn.specs, renIn.data, 1)
        /\ \A n \in 1..Len(renIn.specs) :
               ResolveValue(renIn.specs[n], renIn.data) = <<>>
                   => ~Includes(renOut.text, TokenText(renIn.specs[n].key))

\* C8: the text inserted for one key is never changed by the substitution of
\* another key: a value that holds the token text of another listed key, or a
\* replacement metacharacter, appears verbatim in the output.
C8_InsertedTextUntouched ==
    renOut.done =>
        \A n \in 1..Len(renIn.specs) :
            LET p == renIn.specs[n]
                v == ResolveValue(p, renIn.data)
            IN  (/\ p.type = "text"
                 /\ Includes(renIn.body, TokenText(p.key))
                 /\ \/ Includes(v, <<"$">>)
                    \/ \E m \in 1..Len(renIn.specs) :
                          /\ renIn.specs[m].key # p.key
                          /\ Includes(v, TokenText(renIn.specs[m].key)))
                    => Includes(renOut.text, v)

\* C9: for two listed keys of which one is a substring of the other, the
\* step that replaces the token of the one leaves every occurrence of the
\* token of the other where it is: the step works on the text before and on
\* the text after that occurrence separately.
C9_NoPartialTokenMatch ==
    renOut.done =>
        \A n \in 1..Len(renIn.specs) :
            \A m \in 1..Len(renIn.specs) :
                LET k1 == renIn.specs[n].key
                    k2 == renIn.specs[m].key
                    v == ValueOf(renIn.specs[n], renIn.data)
                    before == renOut.trace[n]
                    after == renOut.trace[n + 1]
                IN  (/\ k1 # k2
                     /\ Includes(k1, k2) \/ Includes(k2, k1)
                     /\ ~Includes(v, <<"$", "`">>)
                     /\ ~Includes(v, <<"$", "'">>))
                        => \A q \in 1..Len(before) :
                               OccursAt(before, TokenText(k2), q) =>
                                   after = ReplaceAll(Slice(before, 1, q - 1), k1, v)
                                           \o TokenText(k2)
                                           \o ReplaceAll(Slice(before,
                                                  q + Len(TokenText(k2)),
                                                  Len(before)), k1, v)

C9_Witness ==
    /\ renOut.done
    /\ Len(renIn.specs) = 2
    /\ renIn.specs[1].key = kName /\ renIn.specs[2].key = kFullName
    /\ renIn.body = TokenText(kFullName) \o TokenText(kName)
    /\ renIn.data = (kName :> vA) @@ (kFullName :> vJunk)
    /\ renOut.trace[2] = TokenText(kFullName) \o vA
    /\ renOut.text = vJunk \o vA

\* C10: a date placeholder whose non-empty value cannot be parsed as a date
\* is rendered as the raw value, unchanged.
C10_UnparseableDateRaw ==
    renOut.done =>
        \A n \in 1..Len(renIn.specs) :
            LET p == renIn.specs[n]
                v == ResolveValue(p, renIn.data)
            IN  (/\ p.type = "date"
                 /\ v # <<>>
                 /\ DateParseIsNaN(v)
                 /\ Includes(renOut.trace[n], TokenText(p.key)))
                    => renOut.trace[n + 1]
                           = PlainReplace(renOut.trace[n], TokenText(p.key), v, 1)

----------------------------------------------------------------------------
(* Format harness: replacePlaceholders on one entry of each type and key *)

kSalaryCap == <<"S","a","l","a","r","y">>
kTotalAmount == <<"T","O","T","A","L","_","A","M","O","U","N","T">>
kNetAmount == <<"n","e","t","_","a","m","o","u","n","t">>
kBonus == <<"b","o","n","u","s">>

vFifty == <<"5","0","0","0","0">>
vLakhs == <<"1","2","3","4","5","6","7",".","5">>

FmtKeys == {kSalary, kSalaryCap, kTotalAmount, kNetAmount, kBonus, kDate}
FmtTypes == {"text", "email", "number", "date"}
FmtDefaults == {<<>>, <<"N","A">>}
FmtValues == {vEmpty, vFifty, vLakhs, vWord, vIsoDate}

\* the values a field of the type is given: a date field gets a date-only
\* ISO string or a word
FmtValuesOf(type) ==
    IF type = "date" THEN {vEmpty, vWord, vIsoDate} ELSE FmtValues

InitFormat ==
    /\ renIn \in UNION {{[specs |-> <<Configured(k, DefaultLabel(k), t, TRUE, dv)>>,
                          body |-> <<"=">> \o TokenText(k),
                          data |-> d] :
                           d \in RecordsOver({k}, FmtValuesOf(t))} :
                        k \in FmtKeys, t \in FmtTypes, dv \in FmtDefaults}
    /\ renOut = NoInput
    /\ templates = <<>>
    /\ GenIdle /\ AuthIdle
    /\ doc = NoInput /\ prevDoc = NoInput
    /\ valIn = NoInput /\ valOut = NoInput

SpecFormat == InitFormat /\ [][NextRender]_vars

----------------------------------------------------------------------------
(* Properties of formatting *)

\* a value the field's type cannot take
BadValue(type, v) ==
    \/ type = "number" /\ IsNaNString(v)
    \/ type = "date" /\ DateParseIsNaN(v)

\* C11: render returns text for every list, body and record, and every bad
\* or missing value shows in the output as the empty string or as the raw
\* supplied string: a missing value leaves nothing in place of its token, a
\* non-numeric value of a number field and an unparseable value of a date
\* field are inserted as they were supplied.
C11_BadValuesEmptyOrRaw ==
    renOut.done =>
        \A n \in 1..Len(renIn.specs) :
            LET p == renIn.specs[n]
                v == ResolveValue(p, renIn.data)
                token == TokenText(p.key)
            IN  (v = <<>> \/ BadValue(p.type, v))
                    => renOut.trace[n + 1]
                           = PlainReplace(renOut.trace[n], token, v, 1)

ToLower(c) ==
    IF \E l \in LowerLetters : ToUpper(l) = c
    THEN CHOOSE l \in LowerLetters : ToUpper(l) = c
    ELSE c

LowerCase(s) == [i \in 1..Len(s) |-> ToLower(s[i])]

\* key contains 'salary' or 'amount', compared without regard to case
QualifiesForCurrency(p) ==
    /\ p.type = "number"
    /\ \/ Includes(LowerCase(p.key), <<"s","a","l","a","r","y">>)
       \/ Includes(LowerCase(p.key), <<"a","m","o","u","n","t">>)

\* C12: a resolved non-empty value is inserted in currency format exactly
\* when the placeholder's type is number and its key contains 'salary' or
\* 'amount' in any letter case; the value of a number field with another
\* key, of a text field and of an email field is inserted unformatted.
C12_CurrencyExactlyForSalaryAmount ==
    renOut.done =>
        \A n \in 1..Len(renIn.specs) :
            LET p == renIn.specs[n]
                v == ResolveValue(p, renIn.data)
                token == TokenText(p.key)
            IN  (v # <<>> /\ p.type # "date" /\ ~IsNaNString(v))
                    => renOut.trace[n + 1]
                           = PlainReplace(renOut.trace[n], token,
                                          IF QualifiesForCurrency(p)
                                          THEN FormatINR(v) ELSE v, 1)

----------------------------------------------------------------------------
(* The text each renderer works on *)

\* generatePDF: processedContent = template.replacePlaceholders(data)
PdfText(placeholders, content, data) ==
    replacePlaceholders(placeholders, content, data)

\* generateDocx: Object.keys(data).forEach(key => processedContent =
\* processedContent.replace(new RegExp(`{{${key}}}`, 'g'), data[key] || ''));
\* the braces of the pattern match themselves. The values of the model hold
\* no token, so the order of the keys does not show.
RECURSIVE DocxReplaceKeys(_, _, _)
DocxReplaceKeys(content, data, keys) ==
    IF keys = {} THEN content
    ELSE LET key == CHOOSE k \in keys : TRUE
         IN  DocxReplaceKeys(ReplaceFrom(content, TokenPattern(key), data[key], 1),
                             data, keys \ {key})

generateDocx(templateContent, data) ==
    DocxReplaceKeys(templateContent, data, DOMAIN data)

\* both renderers given the same template and record
RenderBoth ==
    /\ ~renOut.done
    /\ renOut' = [done |-> TRUE,
                  pdf |-> PdfText(renIn.specs, renIn.body, renIn.data),
                  docx |-> generateDocx(renIn.body, renIn.data)]
    /\ UNCHANGED <<templates, doc, prevDoc, valIn, valOut, renIn,
                   docs, reqs, batch, del, users, calls>>

NextRenderers == RenderBoth

SpecRenderers == InitFormat /\ [][NextRenderers]_vars

\* C25: for both output formats the text the renderer works on is the same
\* render(specs, body, record) result: a listed key without a supplied value
\* becomes its default or the empty string, and typed values are formatted,
\* in the DOCX path as in the PDF path.
C25_SameTextBothFormats ==
    renOut.done =>
        /\ renOut.docx = renOut.pdf
        /\ renOut.docx = replacePlaceholders(renIn.specs, renIn.body, renIn.data)

----------------------------------------------------------------------------
(* Defaults harness: the first save of a template whose body holds tokens *)
(* of keys of every kind                                                  *)

kEmailDate == <<"e","m","a","i","l","_","d","a","t","e">>
kSalaryEmail == <<"s","a","l","a","r","y","_","e","m","a","i","l">>
kAmountDate == <<"a","m","o","u","n","t","_","d","a","t","e">>
kUnderId == <<"_","i","d">>
kRef2 == <<"r","e","f","_","2","_","n","o">>
kDateCap == <<"D","a","t","e">>

DefaultKeys ==
    {kName, kFullName, kDate, kEmail, kSalary, kNetAmount, kEmailDate,
     kSalaryEmail, kAmountDate, kUnderId, kRef2, kDateCap}

\* bodies of one or two tokens
DefaultBodies ==
    {TokenText(k) : k \in DefaultKeys}
    \cup {TokenText(k) \o <<" ">> \o TokenText(l) : k \in DefaultKeys, l \in DefaultKeys}

\* the list the document is built with: none, or one configured entry
DefaultExisting ==
    {<<>>,
     <<Configured(kName, <<"C","a","n","d","i","d","a","t","e">>, "text", FALSE, <<"N","A">>)>>}

InitDefaults ==
    /\ doc \in {[content |-> b, placeholders |-> e, isNew |-> TRUE, saves |-> 0] :
                  b \in DefaultBodies, e \in DefaultExisting}
    /\ prevDoc = doc
    /\ templates = <<>>
    /\ GenIdle /\ AuthIdle
    /\ valIn = NoInput /\ valOut = NoInput
    /\ renIn = NoInput /\ renOut = NoInput

NextDefaults == SaveNew

SpecDefaults == InitDefaults /\ [][NextDefaults]_vars

----------------------------------------------------------------------------
(* Properties of the synthesized defaults *)

\* the key with underscores turned into spaces and each word capitalised
LabelOfKey(key) ==
    [i \in 1..Len(key) |->
        IF key[i] = "_" THEN " "
        ELSE IF i = 1 \/ key[i - 1] = "_" THEN ToUpper(key[i])
        ELSE key[i]]

\* date, then email, then number for salary or amount, else text
TypeOfKey(key) ==
    CASE Includes(key, <<"d","a","t","e">>) -> "date"
      [] ~Includes(key, <<"d","a","t","e">>)
            /\ Includes(key, <<"e","m","a","i","l">>) -> "email"
      [] ~Includes(key, <<"d","a","t","e">>)
            /\ ~Includes(key, <<"e","m","a","i","l">>)
            /\ (Includes(key, <<"s","a","l","a","r","y">>)
                \/ Includes(key, <<"a","m","o","u","n","t">>)) -> "number"
      [] OTHER -> "text"

\* the entries of the saved list whose keys the list did not hold before
Synthesized ==
    {i \in 1..Len(doc.placeholders) :
        doc.placeholders[i].key \notin KeySetOf(prevDoc.placeholders)}

\* C21 as stated: every entry synthesized for a newly found key has required
\* = true, no default value, the label that is the key with underscores
\* turned into spaces and each word capitalised, and the type inferred from
\* the key with the precedence date, email, number, text.
C21_SynthesizedDefaults ==
    Reconciled =>
        \A i \in Synthesized :
            LET p == doc.placeholders[i]
            IN  /\ p.required = TRUE
                /\ p.defaultValue = <<>>
                /\ p.label = LabelOfKey(p.key)
                /\ p.type = TypeOfKey(p.key)

\* C21 amended: as above, with the label stored without leading and trailing
\* white space.
C21_SynthesizedDefaultsTrimmed ==
    Reconciled =>
        \A i \in Synthesized :
            LET p == doc.placeholders[i]
            IN  /\ p.required = TRUE
                /\ p.defaultValue = <<>>
                /\ p.label = Trim(LabelOfKey(p.key))
                /\ p.type = TypeOfKey(p.key)

C21_Witness ==
    /\ Reconciled
    /\ prevDoc.placeholders = <<>>
    /\ doc.content = TokenText(kEmailDate) \o <<" ">> \o TokenText(kUnderId)
    /\ Len(doc.placeholders) = 2
    /\ doc.placeholders[1] =
           [key |-> kEmailDate,
            label |-> <<"E","m","a","i","l"," ","D","a","t","e">>,
            type |-> "date", required |-> TRUE, defaultValue |-> <<>>]
    /\ doc.placeholders[2] =
           [key |-> kUnderId, label |-> <<"I","d">>,
            type |-> "text", required |-> TRUE, defaultValue |-> <<>>]

----------------------------------------------------------------------------
(* The Template collection and the routes that write it *)

TemplateIds == 1..MaxTemplates

SysNames == {<<"A">>, <<"B">>, <<" ", "A">>}

SysContents ==
    {TokenText(kName), <<"H", "i", " ">> \o TokenText(kDate)}

\* the placeholders field of a request body: absent (<<>>) or a parsed list
SysSupplied ==
    {<<>>,
     << <<Configured(kName, <<"C","a","n","d","i","d","a","t","e">>, "text", FALSE, <<>>)>> >>,
     << <<Configured(kOld, <<"O","l","d">>, "text", TRUE, <<>>)>> >>}

SysValues == {vA, vIsoDate}

\* Template.findOne({ name })
NameTaken(name) == \E id \in DOMAIN templates : templates[id].name = name

Init ==
    /\ templates = <<>>
    /\ GenIdle /\ AuthIdle
    /\ doc = NoInput /\ prevDoc = NoInput
    /\ valIn = NoInput /\ valOut = NoInput
    /\ renIn = NoInput /\ renOut = NoInput

\* POST /api/templates: new Template(templateData).save(); the requests of the
\* model carry no tags
PostTemplate(name, content, supplied) ==
    /\ name # <<>> /\ content # <<>>
    /\ ~NameTaken(Trim(name))
    /\ Trim(name) # <<>>
    /\ DOMAIN templates # TemplateIds
    /\ LET id == CHOOSE i \in TemplateIds \ DOMAIN templates :
                     \A j \in TemplateIds \ DOMAIN templates : i <= j
           given == IF supplied = <<>> THEN <<>> ELSE supplied[1]
       IN  templates' = templates @@
               (id :> [name |-> Trim(name),
                       content |-> content,
                       placeholders |-> PreSave(given, content, TRUE),
                       usageCount |-> 0,
                       isActive |-> TRUE,
                       tags |-> <<>>])
    /\ UNCHANGED <<doc, prevDoc, valIn, valOut, renIn, renOut, docs, reqs, batch, del, users>>

\* the route served with no guarded call on record
CreateTemplate(name, content, supplied) ==
    /\ PostTemplate(name, content, supplied)
    /\ UNCHANGED calls

\* PUT /api/templates/:id: Template.findByIdAndUpdate(id, updateData), which
\* runs no save hook; an empty name or content is "not provided"
PutTemplate(id, name, content, supplied, isActive) ==
    /\ id \in DOMAIN templates
    /\ name # <<>> => Trim(name) # <<>>
    /\ templates' = [templates EXCEPT ![id] =
           [name |-> IF name # <<>> THEN Trim(name) ELSE @.name,
            content |-> IF content # <<>> THEN content ELSE @.content,
            placeholders |-> IF supplied # <<>> THEN supplied[1]
                             ELSE @.placeholders,
            usageCount |-> @.usageCount,
            tags |-> @.tags,
            isActive |-> IF isActive = "absent" THEN @.isActive
                         ELSE isActive = "true"]]
    /\ UNCHANGED <<doc, prevDoc, valIn, valOut, renIn, renOut, docs, reqs, batch, del, users>>

\* the route served with no guarded call on record
UpdateTemplate(id, name, content, supplied, isActive) ==
    /\ PutTemplate(id, name, content, supplied, isActive)
    /\ UNCHANGED calls

\* POST /api/templates/:id/clone: new Template({... content, placeholders}).save()
PostClone(id, name) ==
    /\ id \in DOMAIN templates
    /\ name # <<>>
    /\ ~NameTaken(Trim(name))
    /\ DOMAIN templates # TemplateIds
    /\ LET new == CHOOSE i \in TemplateIds \ DOMAIN templates :
                      \A j \in TemplateIds \ DOMAIN templates : i <= j
       IN  templates' = templates @@
               (new :> [name |-> Trim(name),
                        content |-> templates[id].content,
                        placeholders |-> PreSave(templates[id].placeholders,
                                                 templates[id].content, TRUE),
                        usageCount |-> 0,
                        isActive |-> TRUE,
                        tags |-> Append(templates[id].tags, "cloned")])
    /\ UNCHANGED <<doc, prevDoc, valIn, valOut, renIn, renOut, docs, reqs, batch, del, users>>

\* the route served with no guarded call on record
CloneTemplate(id, name) ==
    /\ PostClone(id, name)
    /\ UNCHANGED calls

\* template.incrementUsage(): usageCount += 1, then save() of a document that
\* is neither new nor modified in content
incrementUsage(t) ==
    [t EXCEPT !.usageCount = @ + 1,
              !.placeholders = PreSave(@, t.content, FALSE)]

\* POST /api/documents/generate-single with a renderer that succeeds
GenerateSingle(id, data) ==
    /\ id \in DOMAIN templates
    /\ templates[id].isActive
    /\ validatePlaceholderData(templates[id].placeholders, data) = <<>>
    /\ templates[id].usageCount < MaxUsage
    /\ templates' = [templates EXCEPT ![id] = incrementUsage(@)]
    /\ UNCHANGED <<doc, prevDoc, valIn, valOut, renIn, renOut, docs, reqs, batch, del, users, calls>>

Next ==
    \/ \E name \in SysNames, content \in SysContents, supplied \in SysSupplied :
          CreateTemplate(name, content, supplied)
    \/ \E id \in TemplateIds, name \in SysNames \cup {<<>>},
          content \in SysContents \cup {<<>>}, supplied \in SysSupplied,
          isActive \in {"absent", "true", "false"} :
          UpdateTemplate(id, name, content, supplied, isActive)
    \/ \E id \in TemplateIds, name \in SysNames : CloneTemplate(id, name)
    \/ \E id \in TemplateIds :
          \E data \in RecordsOver({kName, kDate, kOld}, SysValues) :
              GenerateSingle(id, data)

Spec == Init /\ [][Next]_vars

----------------------------------------------------------------------------
(* Properties of the stored templates *)

\* C1: after any sequence of template create, update, clone and
\* usage-increment operations, the keys of a template's stored placeholder
\* list are exactly the distinct {{key}} tokens of its stored body.
C1_ReconciliationInvariant ==
    \A id \in DOMAIN templates :
        KeySetOf(templates[id].placeholders) = TokenKeysOf(templates[id].content)


----------------------------------------------------------------------------
(* Create harness: POST /api/templates requests only *)

CreateContents == SysContents \cup {TokenText(kName) \o TokenText(kOld)}

\* the placeholders field of the request: absent, or a list of the caller
CreateSupplied ==
    SysSupplied
    \cup {<< <<Configured(kName, <<"C","a","n","d","i","d","a","t","e">>, "text",
                          FALSE, <<"N","A">>),
               Configured(kOld, <<"O","l","d">>, "number", TRUE, <<>>)>> >>}

NextCreate ==
    \E name \in SysNames, content \in CreateContents, supplied \in CreateSupplied :
        CreateTemplate(name, content, supplied)

SpecCreate == Init /\ [][NextCreate]_vars

\* C22: for every create request, also one that carries its own placeholder
\* list, the created template's list is the one generated fresh from its
\* body, every entry with required = true.
C22_CreatedListIsFresh ==
    \A id \in DOMAIN templates :
        /\ templates[id].placeholders = PreSave(<<>>, templates[id].content, TRUE)
        /\ \A i \in 1..Len(templates[id].placeholders) :
               templates[id].placeholders[i].required = TRUE

----------------------------------------------------------------------------
(* Document generation: what the routes of /api/documents share *)

\* records.length > 500
BatchCap == 500

\* new GeneratedDoc({templateId, generationType, ...}); a new record is in
\* the status the batch report counts as processing
NewGeneratedDoc(templateId, generationType) ==
    [templateId |-> templateId, generationType |-> generationType,
     status |-> "generating"]

\* generatePDF resolves or rejects as the renderer does; generateDOCX is not
\* among the exports of utils/docxGenerator, so the call of it throws
RendererReturns(format, renders) == format = "pdf" /\ renders

\* save() of a loaded Template of which only usageCount was assigned: the
\* path is set on the stored document; a document no longer stored is not
\* written
SaveUsage(id, t) ==
    IF id \in DOMAIN templates
    THEN [templates EXCEPT ![id].usageCount = t.usageCount]
    ELSE templates

\* the template a seed or an earlier create request has stored
SeedTemplate(name, content, isActive) ==
    [name |-> name, content |-> content,
     placeholders |-> PreSave(<<>>, content, TRUE),
     usageCount |-> 0, isActive |-> isActive, tags |-> <<>>]

----------------------------------------------------------------------------
(* POST /api/documents/generate-bulk and processBulkGeneration *)

\* record[column] || ''
ColumnOr(record, column) ==
    IF Truthy(record, column) THEN record[column] ELSE <<>>

\* variant: the column named by the label is not looked at
AutoValue_KeyOnly(record, placeholder) == ColumnOr(record, placeholder.key)

\* record[placeholder.key] || record[placeholder.label] || ''
AutoValue(record, placeholder) ==
    IF Truthy(record, placeholder.key) THEN record[placeholder.key]
    ELSE ColumnOr(record, placeholder.label)

\* the mapping step at the head of the loop body: the explicit mapping when
\* it has keys, else the automatic value per placeholder
MapRecord(placeholders, mapping, record) ==
    IF DOMAIN mapping # {}
    THEN [k \in DOMAIN mapping |-> ColumnOr(record, mapping[k])]
    ELSE [k \in KeySetOf(placeholders) |->
             LET n == CHOOSE m \in 1..Len(placeholders) :
                          /\ placeholders[m].key = k
                          /\ \A o \in 1..Len(placeholders) :
                                 placeholders[o].key = k => o <= m
             IN  AutoValue(record, placeholders[n])]

\* cleanData[key.trim()] = data[key] for every column of a csv-parser row
\* (the rows of the model have no two columns that trim to the same name)
TrimColumns(row) ==
    [c \in {Trim(k) : k \in DOMAIN row} |->
        row[CHOOSE k \in DOMAIN row : Trim(k) = c]]

\* parseCsvFile for '.csv': the columns trimmed; parseExcelFile for '.xlsx'
\* and '.xls': the rows of sheet_to_json as they are. A row of the model
\* carries what the renderer will do with the document made from it.
ParseFile(file) ==
    [i \in 1..Len(file.rows) |->
        [row |-> IF file.ext = ".csv" THEN TrimColumns(file.rows[i].row)
                 ELSE file.rows[i].row,
         renders |-> file.rows[i].renders]]

\* variant: no cap on the number of records
TooManyRecords_Unchecked(records) == FALSE

\* if (records.length > 500)
TooManyRecords(records) == Len(records) > BatchCap

\* the answer that ends a request before the background processing starts
BulkRejected(status, message, records) ==
    [pc |-> "rejected",
     response |-> [status |-> status, message |-> message],
     total |-> Len(records)]

\* the handler up to the call of processBulkGeneration
PostGenerateBulk(id, file, mapping, format) ==
    /\ batch.pc = "idle"
    /\ LET records == ParseFile(file) IN
       batch' =
           IF id \notin DOMAIN templates
           THEN BulkRejected(404, "Template not found", records)
           ELSE IF ~templates[id].isActive
           THEN BulkRejected(400, "Cannot use inactive template", records)
           ELSE IF Len(records) = 0
           THEN BulkRejected(400, "No valid data found in file", records)
           ELSE IF TooManyRecords(records)
           THEN BulkRejected(400, "Maximum 500 records allowed in bulk generation",
                             records)
           ELSE [pc |-> "processing",
                 response |-> [status |-> 200,
                               message |-> "Bulk generation started"],
                 total |-> Len(records),
                 templateId |-> id,
                 template |-> templates[id],
                 usageBefore |-> templates[id].usageCount,
                 records |-> records,
                 mapping |-> mapping,
                 format |-> format,
                 i |-> 0,
                 mappedData |-> <<>>,
                 errors |-> <<>>,
                 results |-> [successful |-> 0, failed |-> 0,
                              documents |-> <<>>]]
    /\ UNCHANGED <<templates, doc, prevDoc, valIn, valOut, renIn, renOut,
                   docs, reqs, del, users>>

\* the route served with no guarded call on record
BulkStart(id, file, mapping, format) ==
    /\ PostGenerateBulk(id, file, mapping, format)
    /\ UNCHANGED calls

\* variant: a failed record ends the loop
AfterFailure_Abort(b) ==
    [b EXCEPT !.i = Len(b.records), !.results.failed = @ + 1]

\* results.failed++ and on to the next record, after validation errors
\* (continue) and in the catch of the loop body
AfterFailure(b) ==
    [b EXCEPT !.i = @ + 1, !.results.failed = @ + 1]

\* one turn of the loop of processBulkGeneration
BulkRecord ==
    /\ batch.pc = "processing"
    /\ batch.i < Len(batch.records)
    /\ LET record == batch.records[batch.i + 1]
           mappedData == MapRecord(batch.template.placeholders, batch.mapping,
                                   record.row)
           validationErrors ==
               validatePlaceholderData(batch.template.placeholders, mappedData)
           generatedDoc == NewGeneratedDoc(batch.templateId, "bulk")
       IN  IF validationErrors # <<>>
           THEN /\ batch' = [AfterFailure(batch) EXCEPT !.mappedData = mappedData]
                /\ docs' = docs
           ELSE IF RendererReturns(batch.format, record.renders)
           THEN /\ docs' = Append(docs, [generatedDoc EXCEPT !.status = "completed"])
                /\ batch' = [batch EXCEPT
                                !.i = @ + 1,
                                !.mappedData = mappedData,
                                !.results.successful = @ + 1,
                                !.results.documents = Append(@, Len(docs) + 1)]
           ELSE /\ docs' = Append(docs, generatedDoc)
                /\ batch' = [AfterFailure(batch) EXCEPT !.mappedData = mappedData]
    /\ UNCHANGED <<templates, doc, prevDoc, valIn, valOut, renIn, renOut,
                   reqs, del, users, calls>>

\* after the loop: await template.incrementUsage(results.successful)
BulkFinish ==
    /\ batch.pc = "processing"
    /\ batch.i = Len(batch.records)
    /\ LET t == incrementUsage(batch.template)
       IN  /\ templates' = SaveUsage(batch.templateId, t)
           /\ batch' = [batch EXCEPT !.pc = "done", !.template = t]
    /\ UNCHANGED <<doc, prevDoc, valIn, valOut, renIn, renOut, docs, reqs, del, users, calls>>

----------------------------------------------------------------------------
(* Bulk harness: one bulk request against a stored template *)

MaxBatch == 2        \* records in a batch whose records differ

kNameLabel == <<"N","a","m","e">>

rowGood == (kName :> vA)
rowByLabel == (kNameLabel :> vA)
rowBad == (kName :> vEmpty)
rowPadded == (<<" ","n","a","m","e"," ">> :> vA)

\* a parsed row and what the renderer does with the document made from it
RecordKinds ==
    {[row |-> rowGood, renders |-> TRUE],
     [row |-> rowGood, renders |-> FALSE],
     [row |-> rowByLabel, renders |-> TRUE],
     [row |-> rowPadded, renders |-> TRUE],
     [row |-> rowBad, renders |-> TRUE]}

Repeat(x, n) == [i \in 1..n |-> x]

\* short batches of every mix, and batches at and over the cap of one kind
BulkBatches ==
    SeqsUpTo(RecordKinds, MaxBatch)
    \cup {Repeat(k, n) : k \in {[row |-> rowGood, renders |-> TRUE],
                                [row |-> rowBad, renders |-> TRUE]},
                         n \in {BatchCap, BatchCap + 1}}

\* no mapping, and the key name taken from the column Name
BulkMappings == {<<>>, (kName :> kNameLabel)}

InitBulk ==
    /\ templates \in {(1 :> SeedTemplate(<<"A">>, TokenText(kName), a)) :
                        a \in BOOLEAN}
    /\ doc = NoInput /\ prevDoc = NoInput
    /\ valIn = NoInput /\ valOut = NoInput
    /\ renIn = NoInput /\ renOut = NoInput
    /\ GenIdle /\ AuthIdle

NextBulk ==
    \/ \E id \in TemplateIds, rows \in BulkBatches, ext \in {".csv", ".xlsx"},
          mapping \in BulkMappings, format \in {"pdf", "docx"} :
          BulkStart(id, [ext |-> ext, rows |-> rows], mapping, format)
    \/ BulkRecord
    \/ BulkFinish

SpecBulk == InitBulk /\ [][NextBulk]_vars

\* the background function runs on while the renderer and the store answer
SpecBulkFair ==
    InitBulk /\ [][NextBulk]_vars /\ WF_vars(BulkRecord) /\ WF_vars(BulkFinish)


----------------------------------------------------------------------------
(* POST /api/documents/generate-single, one step per awaited store call *)

\* the answer that ends a request
Answer(status, message) == [status |-> status, message |-> message]

\* res has not been written
NoAnswer == Answer(0, "")

\* Template.findById(templateId); the checks of templateId, data and format
\* before it pass for the requests of the model
SingleLoad(r, id, data, format, renders) ==
    /\ reqs[r].pc = "idle"
    /\ reqs' = [reqs EXCEPT ![r] =
           IF id \notin DOMAIN templates
           THEN [pc |-> "done", templateId |-> id, data |-> data,
                 generatedDoc |-> 0, rendered |-> FALSE,
                 response |-> Answer(404, "Template not found")]
           ELSE [pc |-> "loaded", templateId |-> id, template |-> templates[id],
                 data |-> data, format |-> format, renders |-> renders,
                 generatedDoc |-> 0, rendered |-> FALSE,
                 response |-> NoAnswer]]
    /\ UNCHANGED <<templates, doc, prevDoc, valIn, valOut, renIn, renOut,
                   docs, batch, del, users, calls>>

\* variant: the result of validation is not looked at
HasErrors_Never(validationErrors) == FALSE

\* if (validationErrors.length > 0)
HasErrors(validationErrors) == Len(validationErrors) > 0

\* from the isActive test to await generatedDoc.save()
SingleValidate(r) ==
    /\ reqs[r].pc = "loaded"
    /\ LET validationErrors ==
               validatePlaceholderData(reqs[r].template.placeholders, reqs[r].data)
       IN  IF ~reqs[r].template.isActive
           THEN /\ reqs' = [reqs EXCEPT ![r].pc = "done",
                                ![r].response =
                                    Answer(400, "Cannot use inactive template")]
                /\ docs' = docs
           ELSE IF HasErrors(validationErrors)
           THEN /\ reqs' = [reqs EXCEPT ![r].pc = "done",
                                ![r].response =
                                    [status |-> 400,
                                     message |-> "Validation failed",
                                     errors |-> validationErrors]]
                /\ docs' = docs
           ELSE /\ docs' = Append(docs, NewGeneratedDoc(reqs[r].templateId, "single"))
                /\ reqs' = [reqs EXCEPT ![r].pc = "saved",
                                ![r].generatedDoc = Len(docs) + 1]
    /\ UNCHANGED <<templates, doc, prevDoc, valIn, valOut, renIn, renOut,
                   batch, del, users, calls>>

\* generatePDF or generateDOCX, then markAsCompleted and save; when the
\* renderer throws, the catch: markAsFailed and the answer 500
SingleRender(r) ==
    /\ reqs[r].pc = "saved"
    /\ IF RendererReturns(reqs[r].format, reqs[r].renders)
       THEN /\ docs' = [docs EXCEPT ![reqs[r].generatedDoc].status = "completed"]
            /\ reqs' = [reqs EXCEPT ![r].pc = "rendered", ![r].rendered = TRUE]
       ELSE /\ docs' = [docs EXCEPT ![reqs[r].generatedDoc].status = "failed"]
            /\ reqs' = [reqs EXCEPT ![r].pc = "done", ![r].rendered = TRUE,
                            ![r].response =
                                Answer(500, "Document generation failed")]
    /\ UNCHANGED <<templates, doc, prevDoc, valIn, valOut, renIn, renOut,
                   batch, del, users, calls>>

\* await template.incrementUsage() and the answer; the save of a template
\* that is no longer stored throws into the same catch. The optional e-mail
\* changes nothing the model holds.
SingleIncrement(r) ==
    /\ reqs[r].pc = "rendered"
    /\ LET t == incrementUsage(reqs[r].template)
       IN  IF reqs[r].templateId \in DOMAIN templates
           THEN /\ templates' = SaveUsage(reqs[r].templateId, t)
                /\ docs' = docs
                /\ reqs' = [reqs EXCEPT ![r].pc = "done", ![r].template = t,
                                ![r].response =
                                    Answer(200, "Document generated successfully")]
           ELSE /\ templates' = templates
                /\ docs' = [docs EXCEPT ![reqs[r].generatedDoc].status = "failed"]
                /\ reqs' = [reqs EXCEPT ![r].pc = "done", ![r].template = t,
                                ![r].response =
                                    Answer(500, "Document generation failed")]
    /\ UNCHANGED <<doc, prevDoc, valIn, valOut, renIn, renOut, batch, del, users, calls>>

----------------------------------------------------------------------------
(* DELETE /api/templates/:id, one step per awaited store call *)

\* Template.findById(req.params.id)
DeleteFindById(id) ==
    /\ del.pc = "idle"
    /\ del' = IF id \in DOMAIN templates
              THEN [pc |-> "found", id |-> id]
              ELSE [pc |-> "done", id |-> id,
                    response |-> Answer(404, "Template not found")]
    /\ UNCHANGED <<templates, doc, prevDoc, valIn, valOut, renIn, renOut,
                   docs, reqs, batch, users>>

\* the route served with no guarded call on record
DeleteLoad(id) ==
    /\ DeleteFindById(id)
    /\ UNCHANGED calls

\* GeneratedDoc.countDocuments({ templateId })
countDocuments(templateId) ==
    Cardinality({i \in 1..Len(docs) : docs[i].templateId = templateId})

\* the test of the count
DeleteCount ==
    /\ del.pc = "found"
    /\ del' = IF countDocuments(del.id) > 0
              THEN [del EXCEPT !.pc = "done"]
                       @@ [response |-> Answer(400, "Cannot delete template")]
              ELSE [del EXCEPT !.pc = "counted"]
    /\ UNCHANGED <<templates, doc, prevDoc, valIn, valOut, renIn, renOut,
                   docs, reqs, batch, users, calls>>

\* Template.findByIdAndDelete(req.params.id)
DeleteRemove ==
    /\ del.pc = "counted"
    /\ templates' = [id \in DOMAIN templates \ {del.id} |-> templates[id]]
    /\ del' = [del EXCEPT !.pc = "done"]
                  @@ [response |-> Answer(200, "Template deleted successfully")]
    /\ UNCHANGED <<doc, prevDoc, valIn, valOut, renIn, renOut, docs, reqs, batch, users, calls>>

----------------------------------------------------------------------------
(* Generation harness: single requests and a delete request interleaved *)

\* a record the stored template accepts and one it does not
GenData == {rowGood, rowBad}

\* the format asked for and what the renderer does
GenFormats == {<<"pdf", TRUE>>, <<"pdf", FALSE>>, <<"docx", FALSE>>}

InitGenerate ==
    /\ templates \in {(1 :> SeedTemplate(<<"A">>, TokenText(kName), a)) :
                        a \in BOOLEAN}
    /\ doc = NoInput /\ prevDoc = NoInput
    /\ valIn = NoInput /\ valOut = NoInput
    /\ renIn = NoInput /\ renOut = NoInput
    /\ GenIdle /\ AuthIdle

NextGenerate ==
    \/ \E r \in Requests, id \in TemplateIds, data \in GenData, f \in GenFormats :
          SingleLoad(r, id, data, f[1], f[2])
    \/ \E r \in Requests : SingleValidate(r)
    \/ \E r \in Requests : SingleRender(r)
    \/ \E r \in Requests : SingleIncrement(r)
    \/ \E id \in TemplateIds : DeleteLoad(id)
    \/ DeleteCount
    \/ DeleteRemove

SpecGenerate == InitGenerate /\ [][NextGenerate]_vars


----------------------------------------------------------------------------
(* Properties of single generation and template deletion *)

\* the requests on a template that were answered with success
Succeeded(id) ==
    {r \in Requests : /\ reqs[r].pc = "done"
                      /\ reqs[r].templateId = id
                      /\ reqs[r].response.status = 200}

\* C14: usageCount counts the successful generations: whatever the
\* interleaving of the single-generation requests on a template, its
\* usageCount is the number of them answered with success; a request that
\* failed validation or rendering has added nothing.
C14_UsageCountsSuccesses ==
    \A id \in DOMAIN templates :
        templates[id].usageCount = Cardinality(Succeeded(id))

\* C18: a template that a generated document refers to is never deleted:
\* in every state, under every interleaving of a delete request with
\* generation requests, the templateId of every GeneratedDoc is the id of a
\* stored template.
C18_ReferencedTemplateExists ==
    \A i \in 1..Len(docs) : docs[i].templateId \in DOMAIN templates

\* the request has got past findById with a record its template rejects
FailsValidation(q) ==
    /\ q.pc \in {"loaded", "saved", "rendered", "done"}
    /\ "template" \in DOMAIN q
    /\ q.template.isActive
    /\ validatePlaceholderData(q.template.placeholders, q.data) # <<>>

\* C19: validation gates single generation and its errors are data: a
\* request whose record has validation errors is answered 400 with exactly
\* the list validation returned, has created no GeneratedDoc and has invoked
\* no renderer, and the step that answers it changes neither the GeneratedDoc
\* collection nor any template (usageCount included).
C19_ValidationGatesGeneration ==
    /\ [](\A r \in Requests :
              FailsValidation(reqs[r]) =>
                  /\ reqs[r].pc \in {"loaded", "done"}
                  /\ reqs[r].generatedDoc = 0
                  /\ ~reqs[r].rendered
                  /\ reqs[r].pc = "done" =>
                         reqs[r].response =
                             [status |-> 400, message |-> "Validation failed",
                              errors |-> validatePlaceholderData(
                                             reqs[r].template.placeholders,
                                             reqs[r].data)])
    /\ [][\A r \in Requests :
              (FailsValidation(reqs[r]) /\ reqs[r].pc = "loaded"
                   /\ reqs'[r].pc = "done")
                  => UNCHANGED <<docs, templates>>]_vars

C19_Witness ==
    \E r \in Requests :
        /\ reqs[r].pc = "done"
        /\ reqs[r].data = rowBad
        /\ reqs[r].response.status = 400
        /\ reqs[r].response.message = "Validation failed"
        /\ Len(reqs[r].response.errors) = 1
        /\ reqs[r].generatedDoc = 0
        /\ docs = <<>>

----------------------------------------------------------------------------
(* Properties of bulk generation *)

\* C13: when a bulk batch has finished, the template's usageCount is what it
\* was when the batch loaded the template plus the number of records of the
\* batch that rendered successfully: plus 0 when none did, plus k when k did.
C13_BulkUsageBySuccesses ==
    batch.pc = "done" =>
        templates[batch.templateId].usageCount
            = batch.usageBefore + batch.results.successful

CapMessage == "Maximum 500 records allowed in bulk generation"

\* C15: a bulk request with more than 500 records is rejected as a whole
\* before any per-record work: it never gets to processing, no GeneratedDoc
\* exists and no usageCount has moved; a request is never rejected for its
\* size when it has 500 records or fewer.
C15_BatchCap ==
    /\ (batch.pc # "idle" /\ batch.total > BatchCap) =>
           /\ batch.pc = "rejected"
           /\ docs = <<>>
           /\ \A id \in DOMAIN templates : templates[id].usageCount = 0
    /\ (batch.pc = "rejected" /\ batch.response.message = CapMessage) =>
           batch.total > BatchCap
    /\ (batch.pc # "idle" /\ batch.total = BatchCap
            /\ batch.response.status # 404
            /\ templates[1].isActive) =>
           batch.pc \in {"processing", "done"}

C15_Witness ==
    /\ batch.pc = "rejected"
    /\ batch.total = BatchCap + 1
    /\ batch.response = [status |-> 400, message |-> CapMessage]
    /\ docs = <<>>
    /\ templates[1].usageCount = 0

\* C16: in an accepted batch every record is counted exactly once, as
\* successful or as failed, whatever happened to the records before it; the
\* two counters never decrease; and the processing ends with
\* successful + failed = total.
C16_IsolationAndProgress ==
    /\ [](batch.pc \in {"processing", "done"} =>
              /\ batch.results.successful + batch.results.failed = batch.i
              /\ batch.i <= batch.total)
    /\ [][(batch.pc = "processing" /\ batch'.pc \in {"processing", "done"}) =>
              /\ batch'.results.successful >= batch.results.successful
              /\ batch'.results.failed >= batch.results.failed
              /\ batch'.i \in {batch.i, batch.i + 1}
              /\ (batch'.results.successful + batch'.results.failed)
                     - (batch.results.successful + batch.results.failed)
                 = batch'.i - batch.i]_vars
    /\ (batch.pc = "processing") ~>
           (/\ batch.pc = "done"
            /\ batch.results.successful + batch.results.failed = batch.total)

C16_Witness ==
    /\ batch.pc = "done"
    /\ batch.total = 2
    /\ batch.records[1].row = rowBad
    /\ batch.records[2] = [row |-> rowGood, renders |-> TRUE]
    /\ batch.format = "pdf" /\ batch.mapping = <<>>
    /\ batch.results.failed = 1 /\ batch.results.successful = 1
    /\ Len(docs) = 1 /\ docs[1].status = "completed"

\* C17: for every failed record of a batch the batch's result holds the
\* reason of the failure: the result lists as many reasons as it counts
\* failures.
C17_FailureReasonsRetained ==
    batch.pc \in {"processing", "done"} =>
        Len(batch.errors) = batch.results.failed


\* the value of a column of a record, empty when the record has no such column
Cell(row, column) == IF column \in DOMAIN row THEN row[column] ELSE <<>>

\* C23: with an explicit mapping each mapped placeholder key takes the value
\* of its mapped column of the record; without a mapping each placeholder
\* takes record[key] and, if that is empty, the value of the column named by
\* its label, else the empty string.
C23_BulkColumnMapping ==
    (batch.pc \in {"processing", "done"} /\ batch.i > 0) =>
        LET row == batch.records[batch.i].row
            ps == batch.template.placeholders
            m == batch.mapping
            md == batch.mappedData
        IN  IF DOMAIN m # {}
            THEN /\ DOMAIN md = DOMAIN m
                 /\ \A k \in DOMAIN m : md[k] = Cell(row, m[k])
            ELSE /\ DOMAIN md = KeySetOf(ps)
                 /\ \A n \in 1..Len(ps) :
                        md[ps[n].key] =
                            IF Cell(row, ps[n].key) # <<>> THEN Cell(row, ps[n].key)
                            ELSE Cell(row, ps[n].label)

C23_Witness ==
    /\ batch.pc = "processing" /\ batch.i = 1
    /\ batch.mapping = <<>>
    /\ batch.records[1].row = rowByLabel
    /\ batch.mappedData = (kName :> vA)
    /\ batch.results.successful = 1

\* trimmed, lower-cased, white space turned into underscores
NormalizeColumn(c) ==
    LET t == LowerCase(Trim(c))
    IN  [i \in 1..Len(t) |-> IF t[i] \in WhiteSpace THEN "_" ELSE t[i]]

\* C24: every record handed to the mapping step has normalized column
\* names, for CSV and for Excel input alike.
C24_ColumnsNormalized ==
    batch.pc \in {"processing", "done"} =>
        \A i \in 1..Len(batch.records) :
            \A c \in DOMAIN batch.records[i].row : c = NormalizeColumn(c)
----------------------------------------------------------------------------
(* Terminal status of generated documents, uniqueness of template names *)

Terminal(d) == d.status \in {"completed", "failed"}

\* C28: every GeneratedDoc a generation flow created reaches a terminal status,
\* completed when rendering succeeded and failed when the renderer raised, so
\* once the batch has finished no record of it is left in 'generating'.
C28_NoRecordLeftGenerating ==
    batch.pc = "done" => \A i \in 1..Len(docs) : Terminal(docs[i])

\* C29: whatever create, clone and update requests were served, no two stored
\* templates have the same name.
C29_TemplateNamesUnique ==
    \A i, j \in DOMAIN templates :
        templates[i].name = templates[j].name => i = j

----------------------------------------------------------------------------
(* Authentication, role checks and the user management routes *)

MaxUsers == 2        \* documents in the User collection
MaxCalls == 2        \* requests to guarded routes in flight together

UserIds == 1..MaxUsers
Calls == 1..MaxCalls

\* the enum of the role path of userSchema
Roles == {"admin", "hr", "staff"}

\* a stored user; name, email and department are left out, no guard reads them
NewUser(role, isActive) == [role |-> role, isActive |-> isActive]

\* String.prototype.toLowerCase on the role names the routes and the schema use
RoleLower(role) ==
    CASE role = "Admin" -> "admin"
      [] role = "HR" -> "hr"
      [] role = "Staff" -> "staff"
      [] OTHER -> role

\* variant: every authenticated user passes roleCheck
roleCheck_AnyUser(allowedRoles, user) ==
    TRUE

\* normalizedAllowedRoles.includes(req.user.role.toLowerCase())
roleCheck(allowedRoles, user) ==
    RoleLower(user.role) \in {RoleLower(role) : role \in allowedRoles}

anyRole(allowedRoles, user) ==
    RoleLower(user.role) \in {RoleLower(role) : role \in allowedRoles}

\* the guarded routes: the middleware after auth and its allowed list
Guards ==
    [putUser |-> [check |-> "roleCheck", allowed |-> {"admin"}],
     deleteUser |-> [check |-> "roleCheck", allowed |-> {"admin"}],
     postTemplate |-> [check |-> "anyRole", allowed |-> {"admin", "hr"}],
     putTemplate |-> [check |-> "anyRole", allowed |-> {"admin", "hr"}],
     cloneTemplate |-> [check |-> "anyRole", allowed |-> {"admin", "hr"}],
     deleteTemplate |-> [check |-> "roleCheck", allowed |-> {"admin"}],
     generateBulk |-> [check |-> "anyRole", allowed |-> {"admin", "hr"}]]

Routes == DOMAIN Guards

Passes(route, user) ==
    IF Guards[route].check = "roleCheck"
    THEN roleCheck(Guards[route].allowed, user)
    ELSE anyRole(Guards[route].allowed, user)

NoUser == [role |-> "none", isActive |-> FALSE]

\* the role and isActive fields of a PUT /users/:id body; "absent" is undefined
UpdateBodies ==
    [role : Roles \cup {"absent"}, isActive : {"absent", "true", "false"}]

NoBody == [role |-> "absent", isActive |-> "absent"]

\* a request with a valid token of user `actor`, before the auth middleware;
\* login issues tokens to stored users only
NewCall(actor, route, target, body) ==
    [pc |-> "auth", actor |-> actor, route |-> route, target |-> target,
     body |-> body, user |-> NoUser, admitted |-> FALSE,
     response |-> NoAnswer]

Receive(c, actor, route, target, body) ==
    /\ c \notin DOMAIN calls
    /\ actor \in DOMAIN users
    /\ \A d \in Calls : d < c => d \in DOMAIN calls
    /\ calls' = calls @@ (c :> NewCall(actor, route, target, body))
    /\ UNCHANGED <<templates, doc, prevDoc, valIn, valOut, renIn, renOut,
                   docs, reqs, batch, del, users>>

Respond(c, status, message) ==
    [calls EXCEPT ![c].pc = "done", ![c].response = Answer(status, message)]

\* auth: User.findById(decoded.userId); 401 unless the user exists and is active
Authenticate(c) ==
    /\ c \in DOMAIN calls
    /\ calls[c].pc = "auth"
    /\ LET id == calls[c].actor
       IN  calls' =
             IF id \notin DOMAIN users
             THEN Respond(c, 401, "Token is valid but user no longer exists")
             ELSE IF ~users[id].isActive
             THEN Respond(c, 401, "User account has been deactivated")
             ELSE [calls EXCEPT ![c].pc = "roleCheck", ![c].user = users[id]]
    /\ UNCHANGED <<templates, doc, prevDoc, valIn, valOut, renIn, renOut,
                   docs, reqs, batch, del, users>>

\* roleCheck(allowedRoles) / anyRole(allowedRoles): 403 or next(); `admitted`
\* records that next() was called
RoleGuard(c) ==
    /\ c \in DOMAIN calls
    /\ calls[c].pc = "roleCheck"
    /\ calls' = IF Passes(calls[c].route, calls[c].user)
                THEN [calls EXCEPT ![c].pc = "handler", ![c].admitted = TRUE]
                ELSE Respond(c, 403, "Access denied")
    /\ UNCHANGED <<templates, doc, prevDoc, valIn, valOut, renIn, renOut,
                   docs, reqs, batch, del, users>>

\* User.countDocuments({ role: 'admin', isActive: true, _id: { $ne: userId } })
adminCount(userId) ==
    Cardinality({u \in DOMAIN users \ {userId} :
                   users[u].role = "admin" /\ users[u].isActive})

\* the handlers up to User.findById(userId): DELETE refuses the caller's own
\* id first; the last-admin check is skipped for a target that is no admin
\* and, in PUT, for a body whose role is 'admin'
UserFindById(c) ==
    /\ c \in DOMAIN calls
    /\ calls[c].pc = "handler"
    /\ calls[c].route \in {"putUser", "deleteUser"}
    /\ LET userId == calls[c].target
           checked == IF calls[c].route = "putUser"
                      THEN users[userId].role = "admin" /\ calls[c].body.role # "admin"
                      ELSE users[userId].role = "admin"
       IN  calls' =
             IF calls[c].route = "deleteUser" /\ userId = calls[c].actor
             THEN Respond(c, 400, "Cannot delete your own account")
             ELSE IF userId \notin DOMAIN users
             THEN Respond(c, 404, "User not found")
             ELSE [calls EXCEPT ![c].pc = IF checked THEN "count" ELSE "write"]
    /\ UNCHANGED <<templates, doc, prevDoc, valIn, valOut, renIn, renOut,
                   docs, reqs, batch, del, users>>

\* if (adminCount === 0) return res.status(400)
UserCountAdmins(c) ==
    /\ c \in DOMAIN calls
    /\ calls[c].pc = "count"
    /\ calls' = IF adminCount(calls[c].target) = 0
                THEN Respond(c, 400, "Cannot change or delete the last admin user")
                ELSE [calls EXCEPT ![c].pc = "write"]
    /\ UNCHANGED <<templates, doc, prevDoc, valIn, valOut, renIn, renOut,
                   docs, reqs, batch, del, users>>

\* allowedUpdates without its undefined values
ApplyUpdates(user, body) ==
    [role |-> IF body.role = "absent" THEN user.role ELSE body.role,
     isActive |-> IF body.isActive = "absent" THEN user.isActive
                  ELSE body.isActive = "true"]

Without(f, x) == [y \in DOMAIN f \ {x} |-> f[y]]

\* User.findByIdAndUpdate(userId, allowedUpdates): null for a user deleted
\* meanwhile, and updatedUser.profile then throws into the catch (500)
UserUpdate(c) ==
    /\ c \in DOMAIN calls
    /\ calls[c].pc = "write"
    /\ calls[c].route = "putUser"
    /\ LET userId == calls[c].target
       IN  IF userId \in DOMAIN users
           THEN /\ users' = [users EXCEPT ![userId] = ApplyUpdates(@, calls[c].body)]
                /\ calls' = Respond(c, 200, "User updated successfully")
           ELSE /\ users' = users
                /\ calls' = Respond(c, 500, "Server error updating user")
    /\ UNCHANGED <<templates, doc, prevDoc, valIn, valOut, renIn, renOut,
                   docs, reqs, batch, del>>

\* User.findByIdAndDelete(userId), which runs no 'remove' middleware
UserDelete(c) ==
    /\ c \in DOMAIN calls
    /\ calls[c].pc = "write"
    /\ calls[c].route = "deleteUser"
    /\ users' = Without(users, calls[c].target)
    /\ calls' = Respond(c, 200, "User deleted successfully")
    /\ UNCHANGED <<templates, doc, prevDoc, valIn, valOut, renIn, renOut,
                   docs, reqs, batch, del>>

----------------------------------------------------------------------------
(* Users harness: update and delete requests against a seeded collection *)

\* user 1 is an active admin; user 2 is any user
InitUsers ==
    /\ users \in {(1 :> NewUser("admin", TRUE)) @@ (2 :> NewUser(role, a)) :
                    role \in Roles, a \in BOOLEAN}
    /\ calls = <<>>
    /\ templates = <<>>
    /\ GenIdle
    /\ doc = NoInput /\ prevDoc = NoInput
    /\ valIn = NoInput /\ valOut = NoInput
    /\ renIn = NoInput /\ renOut = NoInput

NextUsers ==
    \/ \E c \in Calls, actor \in UserIds, target \in UserIds :
          \/ \E body \in UpdateBodies : Receive(c, actor, "putUser", target, body)
          \/ Receive(c, actor, "deleteUser", target, NoBody)
    \/ \E c \in Calls : Authenticate(c)
    \/ \E c \in Calls : RoleGuard(c)
    \/ \E c \in Calls : UserFindById(c)
    \/ \E c \in Calls : UserCountAdmins(c)
    \/ \E c \in Calls : UserUpdate(c)
    \/ \E c \in Calls : UserDelete(c)

SpecUsers == InitUsers /\ [][NextUsers]_vars

ActiveAdmins ==
    {u \in DOMAIN users : users[u].role = "admin" /\ users[u].isActive}

\* C27: from a collection with an active admin, whatever user update and
\* delete requests are served and however they interleave, some user with
\* role admin and isActive = true is still stored.
C27_LastAdminKept ==
    ActiveAdmins # {}

----------------------------------------------------------------------------
(* The guarded template and bulk routes behind their middleware *)

\* next() of the guard has handed call c to the handler of `route`
Admitted(c, route) ==
    /\ c \in DOMAIN calls
    /\ calls[c].pc = "handler"
    /\ calls[c].route = route

GuardedPostTemplate(c, name, content, supplied) ==
    /\ Admitted(c, "postTemplate")
    /\ PostTemplate(name, content, supplied)
    /\ calls' = Respond(c, 201, "Template created successfully")

GuardedPutTemplate(c, id, name, content, supplied, isActive) ==
    /\ Admitted(c, "putTemplate")
    /\ PutTemplate(id, name, content, supplied, isActive)
    /\ calls' = Respond(c, 200, "Template updated successfully")

GuardedPostClone(c, id, name) ==
    /\ Admitted(c, "cloneTemplate")
    /\ PostClone(id, name)
    /\ calls' = Respond(c, 201, "Template cloned successfully")

\* the delete handler goes on in DeleteCount and DeleteRemove and answers there
GuardedDeleteTemplate(c, id) ==
    /\ Admitted(c, "deleteTemplate")
    /\ DeleteFindById(id)
    /\ calls' = [calls EXCEPT ![c].pc = "deleting"]

\* the bulk handler answers before the background loop runs
GuardedGenerateBulk(c, id, file, mapping, format) ==
    /\ Admitted(c, "generateBulk")
    /\ PostGenerateBulk(id, file, mapping, format)
    /\ calls' = [calls EXCEPT ![c].pc = "done", ![c].response = batch'.response]

----------------------------------------------------------------------------
(* Access harness: requests of an admin and of a second user to every
   guarded route *)

AccessNames == {<<"A">>, <<"B">>}

AccessBodies == {[role |-> "staff", isActive |-> "absent"]}

AccessFiles ==
    {[ext |-> ".csv", rows |-> <<[row |-> rowGood, renders |-> TRUE]>>]}

InitAccess ==
    /\ users \in {(1 :> NewUser("admin", TRUE)) @@ (2 :> NewUser(role, TRUE)) :
                    role \in {"hr", "staff"}}
    /\ calls = <<>>
    /\ templates = (1 :> SeedTemplate(<<"A">>, TokenText(kName), TRUE))
    /\ GenIdle
    /\ doc = NoInput /\ prevDoc = NoInput
    /\ valIn = NoInput /\ valOut = NoInput
    /\ renIn = NoInput /\ renOut = NoInput

NextAccess ==
    \/ \E c \in Calls, actor \in UserIds :
          \/ \E target \in UserIds, body \in AccessBodies :
                Receive(c, actor, "putUser", target, body)
          \/ \E target \in UserIds : Receive(c, actor, "deleteUser", target, NoBody)
          \/ \E route \in Routes \ {"putUser", "deleteUser"} :
                Receive(c, actor, route, actor, NoBody)
    \/ \E c \in Calls : Authenticate(c)
    \/ \E c \in Calls : RoleGuard(c)
    \/ \E c \in Calls : UserFindById(c)
    \/ \E c \in Calls : UserCountAdmins(c)
    \/ \E c \in Calls : UserUpdate(c)
    \/ \E c \in Calls : UserDelete(c)
    \/ \E c \in Calls, name \in AccessNames :
          GuardedPostTemplate(c, name, TokenText(kName), <<>>)
    \/ \E c \in Calls, id \in TemplateIds, name \in AccessNames :
          GuardedPutTemplate(c, id, name, <<>>, <<>>, "absent")
    \/ \E c \in Calls, id \in TemplateIds, name \in AccessNames :
          GuardedPostClone(c, id, name)
    \/ \E c \in Calls, id \in TemplateIds : GuardedDeleteTemplate(c, id)
    \/ DeleteCount
    \/ DeleteRemove
    \/ \E c \in Calls, id \in TemplateIds, file \in AccessFiles :
          GuardedGenerateBulk(c, id, file, <<>>, "pdf")
    \/ BulkRecord
    \/ BulkFinish

SpecAccess == InitAccess /\ [][NextAccess]_vars

----------------------------------------------------------------------------
(* Properties of the role guards *)

\* the role of req.user is in the allowed list of the call's route
RoleAllowed(c) ==
    RoleLower(calls[c].user.role) \in
        {RoleLower(role) : role \in Guards[calls[c].route].allowed}

AdmittedTo(routes) ==
    {c \in DOMAIN calls : calls[c].admitted /\ calls[c].route \in routes}


UserRoutes == {"putUser", "deleteUser"}

TemplateRoutes ==
    {"postTemplate", "putTemplate", "cloneTemplate", "deleteTemplate",
     "generateBulk"}

\* a call the guard has answered or passed on
Guarded(c) == calls[c].pc \notin {"auth", "roleCheck"} /\ calls[c].user # NoUser

\* the handler was entered exactly for the allowed roles, and the others were
\* answered 403
GateHolds ==
    \A c \in DOMAIN calls :
        /\ calls[c].admitted => RoleAllowed(c)
        /\ Guarded(c) /\ ~RoleAllowed(c) =>
               /\ ~calls[c].admitted
               /\ calls[c].pc = "done"
               /\ calls[c].response.status = 403
        /\ Guarded(c) /\ RoleAllowed(c) => calls[c].admitted
        /\ calls[c].user.role = "staff" => ~calls[c].admitted

\* the stores change only in steps of handlers a guard let through
WritesAreAdmitted ==
    /\ users' # users => AdmittedTo(UserRoutes) # {}
    /\ <<templates, docs, batch, del>>' # <<templates, docs, batch, del>> =>
           AdmittedTo(TemplateRoutes) # {}
    /\ \A c \in DOMAIN calls :
           calls'[c].response.status = 403 /\ calls[c].response.status # 403 =>
               UNCHANGED <<users, templates, docs, batch, del>>

=============================================================================
